---- MODULE Spec2Model ----
(***************************************************************************)
(* Model of src/app.py, the Streamlit travel planner.                      *)
(*                                                                         *)
(* One step of the model is one run of the script (Streamlit re-executes   *)
(* the whole file on every user interaction).  Session state is what       *)
(* survives between runs.  Values that come from the generation service    *)
(* are untyped JSON, so every JSON value carries a tag t:                  *)
(*   None, Num(n), Str(chars), Arr(sequence), Obj(record).                 *)
(* Strings are sequences of one-character strings.  Numbers are integers.  *)
(***************************************************************************)
EXTENDS Integers, Sequences, FiniteSets, TLC

VARIABLES api_key, session_state, sustainability_score, last, refinements

vars == <<api_key, session_state, sustainability_score, last, refinements>>

(* ---------------- bounds of the explored input space ------------------- *)

\* Largest estimatedCostINR the service returns.
MaxCost == 1
\* Largest number of activities in a day the service returns.
MaxActs == 2
\* Largest number of activities in a day of the itineraries scored alone.
SustActs == 2
\* Largest number of replacements explored between two full generations.
MaxRefinements == 2

(* ---------------- JSON values and Python's operations on them ---------- *)

None == [t |-> "null"]
Num(n) == [t |-> "num", n |-> n]
Str(s) == [t |-> "str", s |-> s]
Arr(q) == [t |-> "arr", e |-> q]
Obj(r) == [t |-> "obj", m |-> r]

\* The result of evaluating a Python expression: a value or a raised exception.
Ok(v) == [ok |-> TRUE, v |-> v]
Raise(x) == [ok |-> FALSE, exc |-> x]

\* v[i] for an integer i >= 0.
Subscript(v, i) ==
    CASE v.t = "arr" -> IF i < Len(v.e) THEN Ok(v.e[i + 1]) ELSE Raise("IndexError")
      [] v.t = "str" -> IF i < Len(v.s) THEN Ok(Str(<<v.s[i + 1]>>)) ELSE Raise("IndexError")
      [] v.t = "obj" -> Raise("KeyError")
      [] OTHER -> Raise("TypeError")

\* v[k] for a string key k.
Item(v, k) ==
    CASE v.t = "obj" -> IF k \in DOMAIN v.m THEN Ok(v.m[k]) ELSE Raise("KeyError")
      [] OTHER -> Raise("TypeError")

\* v.get(k, d)
DictGet(v, k, d) ==
    CASE v.t = "obj" -> Ok(IF k \in DOMAIN v.m THEN v.m[k] ELSE d)
      [] OTHER -> Raise("AttributeError")

\* x + y and x - y
Plus(x, y) ==
    IF x.t = "num" /\ y.t = "num" THEN Ok(Num(x.n + y.n)) ELSE Raise("TypeError")

Minus(x, y) ==
    IF x.t = "num" /\ y.t = "num" THEN Ok(Num(x.n - y.n)) ELSE Raise("TypeError")

\* bool(v)
Truthy(v) ==
    CASE v.t = "null" -> FALSE
      [] v.t = "num" -> v.n # 0
      [] v.t = "str" -> Len(v.s) > 0
      [] v.t = "arr" -> Len(v.e) > 0
      [] v.t = "obj" -> DOMAIN v.m # {}

\* The values "for x in v" yields, or the TypeError of a value that is not iterable.
\* Iterating an object yields its keys, which are strings (their letters are not
\* modelled: every use of a key below fails on its being a string).
Iterate(v) ==
    CASE v.t = "arr" -> Ok(v.e)
      [] v.t = "str" -> Ok([i \in 1..Len(v.s) |-> Str(<<v.s[i]>>)])
      [] v.t = "obj" -> Ok([i \in 1..Cardinality(DOMAIN v.m) |-> Str(<<"k">>)])
      [] OTHER -> Raise("TypeError")

\* d with d[k] = v, for an object d (dict item assignment).
SetItem(d, k, v) ==
    Obj([f \in DOMAIN d.m \cup {k} |-> IF f = k THEN v ELSE d.m[f]])

\* l with l[i] = v, for an array l and 0 <= i < len(l).
SetIndex(l, i, v) ==
    Arr([j \in 1..Len(l.e) |-> IF j = i + 1 THEN v ELSE l.e[j]])

(* ---------------- the service's responses ------------------------------ *)

\* client.models.generate_content either raises APIError or returns a response whose
\* text is a JSON document or is not one.
APIErrorResponse == [t |-> "APIError"]
InvalidText == [t |-> "text", valid |-> FALSE]
Text(j) == [t |-> "text", valid |-> TRUE, doc |-> j]

json_loads(text) ==
    IF text.valid THEN Ok(text.doc) ELSE Raise("JSONDecodeError")

(* ---------------- strings ---------------------------------------------- *)

UpperLetters == <<"A","B","C","D","E","F","G","H","I","J","K","L","M",
                  "N","O","P","Q","R","S","T","U","V","W","X","Y","Z">>
LowerLetters == <<"a","b","c","d","e","f","g","h","i","j","k","l","m",
                  "n","o","p","q","r","s","t","u","v","w","x","y","z">>

LowerOf == [c \in {UpperLetters[i] : i \in DOMAIN UpperLetters} |->
               LowerLetters[CHOOSE i \in DOMAIN UpperLetters : UpperLetters[i] = c]]

LowerChar(c) == IF c \in DOMAIN LowerOf THEN LowerOf[c] ELSE c

\* s.lower()
Lower(s) == [i \in 1..Len(s) |-> LowerChar(s[i])]

\* sub in s
Contains(sub, s) ==
    \E i \in 0..(Len(s) - Len(sub)) : SubSeq(s, i + 1, i + Len(sub)) = sub

metro == <<"m","e","t","r","o">>
bus == <<"b","u","s">>
walk == <<"w","a","l","k">>

(* ---------------- itineraries ------------------------------------------ *)

cost_key == "dailyBudgetSummaryINR"
act_cost_key == "estimatedCostINR"

\* An activity with every field of ITINERARY_SCHEMA; its texts and coordinates
\* are abbreviated.
Activity(cost, transport) ==
    Obj([time |-> Str(<<"9">>), description |-> Str(<<"d">>),
         estimatedCostINR |-> Num(cost), transportation |-> Str(transport),
         latitude |-> Num(17), longitude |-> Num(78)])

\* obj without field k
Without(obj, k) == Obj([f \in DOMAIN obj.m \ {k} |-> obj.m[f]])

\* A day with every field of ITINERARY_SCHEMA.
Day(n, acts, summary) ==
    Obj([day |-> Num(n), theme |-> Str(<<"t">>), activities |-> Arr(acts),
         dailyBudgetSummaryINR |-> Num(summary),
         accommodationSuggestion |-> Str(<<"h">>)])

\* The hardcoded demo itinerary (texts abbreviated to the words that matter).
MOCK_ITINERARY ==
    Arr(<<Day(1,
              <<Activity(50, <<"B","u","s">>),
                Activity(150, <<"W","a","l","k">>),
                Activity(0, <<"W","a","l","k">>),
                Activity(30, <<"M","e","t","r","o">>),
                Activity(350, <<"M","e","t","r","o">>)>>,
              620)>>)

\* sum(day.get("dailyBudgetSummaryINR", 0) for day in days), days a sequence:
\* left to right from 0, stopping at the first element that raises.
RECURSIVE SumFrom(_, _, _)
SumFrom(days, i, acc) ==
    IF i > Len(days) THEN Ok(acc)
    ELSE LET g == DictGet(days[i], cost_key, Num(0))
         IN  IF ~g.ok THEN g
             ELSE LET s == Plus(acc, g.v)
                  IN  IF ~s.ok THEN s ELSE SumFrom(days, i + 1, s.v)

SumDailyBudgets(data) ==
    LET it == Iterate(data)
    IN  IF ~it.ok THEN it ELSE SumFrom(it.v, 1, Num(0))

(* ---------------- derived metrics -------------------------------------- *)

\* day.get("activities", []) as a sequence.  Stored days are objects whose
\* "activities", when present, is an array of objects.
DayActivities(day) ==
    IF "activities" \in DOMAIN day.m THEN day.m.activities.e ELSE <<>>

\* The longest day of an itinerary.
RECURSIVE MaxSlotsFrom(_, _)
MaxSlotsFrom(days, i) ==
    IF i > Len(days) THEN 0
    ELSE LET n == Len(DayActivities(days[i]))
             m == MaxSlotsFrom(days, i + 1)
         IN  IF n > m THEN n ELSE m

MaxSlots(itinerary) == MaxSlotsFrom(itinerary.e, 1)

\* The (day index, activity index) pairs of an itinerary, 0-based.
Slots(itinerary) ==
    {<<d, a>> \in (0..(Len(itinerary.e) - 1)) \X (0..MaxSlots(itinerary) - 1) :
        a < Len(DayActivities(itinerary.e[d + 1]))}

\* act.get("transportation", "").lower()
TransportOf(act) ==
    Lower(IF "transportation" \in DOMAIN act.m THEN act.m.transportation.s ELSE <<>>)

\* IsGreen with the third word forgotten.
IsGreenWithoutWalk(transport) ==
    Contains(metro, transport) \/ Contains(bus, transport)

IsGreen(transport) ==
    Contains(metro, transport) \/ Contains(bus, transport) \/ Contains(walk, transport)

\* PyRound with a tie going up, as round() does in most other languages.
RoundHalfUp(num, den) == (2 * num + den) \div (2 * den)

\* Python's round() of the quotient num / den (den > 0, num >= 0): to the nearest
\* integer, a tie going to the even neighbour.
PyRound(num, den) ==
    LET q == num \div den
        r == num % den
    IN  IF 2 * r < den THEN q
        ELSE IF 2 * r > den THEN q + 1
        ELSE IF q % 2 = 0 THEN q ELSE q + 1

PyMax(x, y) == IF y > x THEN y ELSE x
PyMin(x, y) == IF y < x THEN y ELSE x

calculate_sustainability(itinerary) ==
    LET ActAt(sl) == itinerary.e[sl[1] + 1].m.activities.e[sl[2] + 1]
        score == Cardinality({sl \in Slots(itinerary) : IsGreen(TransportOf(ActAt(sl)))})
        transport_mentions ==
            Cardinality({sl \in Slots(itinerary) : Len(TransportOf(ActAt(sl))) > 0})
    IN  IF transport_mentions = 0 THEN 3
        ELSE PyMax(1, PyMin(5, PyRound(score * 5, transport_mentions)))

(* ---------------- full generation -------------------------------------- *)

is_demo_mode == ~api_key

\* What one run leaves behind besides session state: the action taken, the slot
\* it aimed at, the response the service gave, how the run ended and the
\* exception involved ("" when none).
Ran(op, d, a, response, outcome, exc) ==
    [op |-> op, day_idx |-> d, act_idx |-> a, response |-> response,
     outcome |-> outcome, exc |-> exc]

NoResponse == [t |-> "none"]

\* ShowDemoItinerary with the first of its two assignments left out.
ShowDemoTotalOnly(st) ==
    [st EXCEPT !.total_trip_cost = SumDailyBudgets(MOCK_ITINERARY).v.n]

\* The two assignments every except clause of the generation block makes.
ShowDemoItinerary(st) ==
    [st EXCEPT !.itinerary = MOCK_ITINERARY,
               !.total_trip_cost = SumDailyBudgets(MOCK_ITINERARY).v.n]

\* UnwrapItinerary without the branch that takes the "itinerary" member of an
\* object.
UnwrapListOnly(itinerary_data) ==
    IF itinerary_data.t = "arr" THEN Ok(itinerary_data)
    ELSE Raise("ValueError")

\* The isinstance checks on the parsed response.
UnwrapItinerary(itinerary_data) ==
    IF itinerary_data.t = "arr" THEN Ok(itinerary_data)
    ELSE IF itinerary_data.t = "obj" /\ "itinerary" \in DOMAIN itinerary_data.m
         THEN Ok(itinerary_data.m.itinerary)
         ELSE Raise("ValueError")

\* The try block of the main logic for a pressed Generate button with a key
\* configured: the session state and the outcome it ends with.
GenerationBlock(st, resp) ==
    IF resp.t = "APIError"
    THEN [st |-> ShowDemoItinerary(st), outcome |-> "api_error_demo", exc |-> "APIError"]
    ELSE
    LET parsed == json_loads(resp)
        data == IF parsed.ok THEN UnwrapItinerary(parsed.v) ELSE parsed
        \* session_state.itinerary is assigned before the sum is taken
        assigned == IF data.ok THEN [st EXCEPT !.itinerary = data.v] ELSE st
        total == IF data.ok THEN SumDailyBudgets(data.v) ELSE data
    IN  IF total.ok
        THEN [st |-> [assigned EXCEPT !.total_trip_cost = total.v.n],
              outcome |-> "generated", exc |-> ""]
        ELSE [st |-> ShowDemoItinerary(assigned),
              outcome |-> "general_error_demo", exc |-> total.exc]

(* ---------------- refinement ------------------------------------------- *)

\* all_activities: one entry per activity, in day order then activity order.
RECURSIVE AllActivitiesFrom(_, _, _)
AllActivitiesFrom(itinerary, d, a) ==
    IF d >= Len(itinerary.e) THEN <<>>
    ELSE LET acts == DayActivities(itinerary.e[d + 1])
         IN  IF a >= Len(acts) THEN AllActivitiesFrom(itinerary, d + 1, 0)
             ELSE <<[cost |-> DictGet(acts[a + 1], act_cost_key, Num(0)).v.n,
                     day_idx |-> d, act_idx |-> a]>>
                  \o AllActivitiesFrom(itinerary, d, a + 1)

all_activities(itinerary) == AllActivitiesFrom(itinerary, 0, 0)

\* Better with ties going to the later candidate.
BetterOrEqual(candidate, best) == candidate.cost >= best.cost

\* Whether max() replaces its best-so-far by the next candidate.
Better(candidate, best) == candidate.cost > best.cost

\* max(all, key=cost): the scan keeps the first of equal maxima.
RECURSIVE MaxFrom(_, _, _)
MaxFrom(all, i, best) ==
    IF i > Len(all) THEN best
    ELSE MaxFrom(all, i + 1, IF Better(all[i], best) THEN all[i] ELSE best)

most_expensive(itinerary) ==
    LET all == all_activities(itinerary) IN MaxFrom(all, 2, all[1])

\* day[cost_key] = value, in place
AdjustBudget(itinerary, d, value) ==
    SetIndex(itinerary, d, SetItem(itinerary.e[d + 1], cost_key, value))

\* OverwriteActivity writing to the first slot of the day whatever a is.
OverwriteFirstActivity(itinerary, d, a, new_activity) ==
    LET day == itinerary.e[d + 1]
    IN  SetIndex(itinerary, d,
                 SetItem(day, "activities", SetIndex(day.m.activities, 0, new_activity)))

\* day['activities'][activity_index] = new_activity, in place
OverwriteActivity(itinerary, d, a, new_activity) ==
    LET day == itinerary.e[d + 1]
    IN  SetIndex(itinerary, d,
                 SetItem(day, "activities", SetIndex(day.m.activities, a, new_activity)))

\* The first exception of a sequence of results, or "" when none raised.
RECURSIVE FirstRaise(_, _)
FirstRaise(results, i) ==
    IF i > Len(results) THEN ""
    ELSE IF ~results[i].ok THEN results[i].exc ELSE FirstRaise(results, i + 1)

\* The statements of regenerate_activity ahead of its try: the subscripts the
\* prompt and the spinner text take.
PromptLookups(day, old_activity) ==
    <<Item(day, "theme"), Item(old_activity, "time"), Item(old_activity, "description"),
      Item(old_activity, act_cost_key), Item(day, "day")>>

\* TryReplace taking the old cost off the day's summary before it sends the
\* request, and adding the new cost once it has one.
TryReplaceAdjustingFirst(current_itinerary, day_index, activity_index, resp) ==
    LET day == current_itinerary.e[day_index + 1]
        old_activity == day.m.activities.e[activity_index + 1]
        less == Minus(DictGet(day, cost_key, Num(0)).v, old_activity.m[act_cost_key])
        lowered == AdjustBudget(current_itinerary, day_index, less.v)
        parsed == IF resp.t = "APIError" THEN Raise("APIError") ELSE json_loads(resp)
        new_activity == IF parsed.ok THEN Subscript(parsed.v, 0) ELSE parsed
        new_cost == IF new_activity.ok
                    THEN DictGet(new_activity.v, act_cost_key, Num(0)) ELSE new_activity
        budget == IF new_cost.ok THEN Plus(less.v, new_cost.v) ELSE new_cost
    IN  IF ~budget.ok
        THEN [itinerary |-> lowered, outcome |-> "inline_error", exc |-> budget.exc]
        ELSE [itinerary |->
                  OverwriteActivity(AdjustBudget(lowered, day_index, budget.v),
                                    day_index, activity_index, new_activity.v),
              outcome |-> "replaced", exc |-> ""]

\* The try block of regenerate_activity.  The itinerary is mutated in place, so
\* an exception leaves it as mutated so far.
TryReplace(current_itinerary, day_index, activity_index, resp) ==
    LET day == current_itinerary.e[day_index + 1]
        old_activity == day.m.activities.e[activity_index + 1]
        parsed == IF resp.t = "APIError" THEN Raise("APIError") ELSE json_loads(resp)
        new_activity == IF parsed.ok THEN Subscript(parsed.v, 0) ELSE parsed
        old_cost == old_activity.m[act_cost_key]
        new_cost == IF new_activity.ok
                    THEN DictGet(new_activity.v, act_cost_key, Num(0)) ELSE new_activity
        less == IF new_cost.ok
                THEN Minus(DictGet(day, cost_key, Num(0)).v, old_cost) ELSE new_cost
        budget == IF less.ok THEN Plus(less.v, new_cost.v) ELSE less
    IN  IF ~budget.ok
        THEN [itinerary |-> current_itinerary, outcome |-> "inline_error",
              exc |-> budget.exc]
        ELSE [itinerary |->
                  OverwriteActivity(AdjustBudget(current_itinerary, day_index, budget.v),
                                    day_index, activity_index, new_activity.v),
              outcome |-> "replaced", exc |-> ""]

regenerate_activity(current_itinerary, day_index, activity_index, resp) ==
    LET day == current_itinerary.e[day_index + 1]
        old_activity == day.m.activities.e[activity_index + 1]
        raised == FirstRaise(PromptLookups(day, old_activity), 1)
    IN  IF raised # ""
        THEN [itinerary |-> current_itinerary, outcome |-> "uncaught", exc |-> raised]
        ELSE TryReplace(current_itinerary, day_index, activity_index, resp)

(* ---------------- what the service may answer -------------------------- *)

Costs == 0..MaxCost

Walk == <<"W","a","l","k">>

RECURSIVE SumCosts(_)
SumCosts(acts) ==
    IF acts = <<>> THEN 0
    ELSE DictGet(Head(acts), act_cost_key, Num(0)).v.n + SumCosts(Tail(acts))

WholeActivities == {Activity(c, Walk) : c \in Costs}

\* Activities that break the schema's "required" list.
NoCostActivity == Without(Activity(MaxCost, Walk), act_cost_key)
NoCoordinatesActivity == Without(Without(Activity(0, Walk), "latitude"), "longitude")

ServiceActivities == WholeActivities \cup {NoCostActivity, NoCoordinatesActivity}

\* Answers to a replacement request from which no activity can be taken.
UnusableReplacements ==
    {APIErrorResponse, InvalidText,
     Text(None), Text(Str(<<"x">>)), Text(Activity(0, Walk)),
     Text(Arr(<<>>)), Text(Arr(<<Num(1)>>)),
     Text(Arr(<<SetItem(Activity(0, Walk), act_cost_key, Str(<<"1">>))>>))}

ReplacementResponses ==
    UnusableReplacements
    \cup {Text(Arr(<<x>>)) : x \in ServiceActivities}
    \cup {Text(Arr(<<Activity(0, Walk), Num(1)>>))}

ActivityLists == UNION {[1..n -> WholeActivities] : n \in 1..MaxActs}

\* Days whose summary is the sum of their costs, or is off by one.
WholeDays(n) ==
    {Day(n, acts, SumCosts(acts) + drift) : acts \in ActivityLists, drift \in {0, 1}}

\* Days whose summary is the sum of their costs.
ExactDays(n) == {Day(n, acts, SumCosts(acts)) : acts \in ActivityLists}

\* Days of one activity whose summary is its cost.
SingleDays(n) == {Day(n, <<x>>, SumCosts(<<x>>)) : x \in WholeActivities}

\* Days that break the schema.
BrokenDays ==
    {Without(Day(1, <<Activity(1, Walk)>>, 1), "theme"),
     Without(Day(1, <<Activity(1, Walk)>>, 1), cost_key),
     Without(Day(1, <<>>, 0), "activities"),
     Day(1, <<>>, 0),
     Day(1, <<NoCostActivity, Activity(1, Walk)>>, 1)}

ServiceItineraries ==
    {Arr(<<>>)}
    \cup {Arr(<<d>>) : d \in WholeDays(1) \cup BrokenDays}
    \cup {Arr(<<d1, d2>>) : d1 \in ExactDays(1), d2 \in SingleDays(2)}

\* Answers to a full generation request that the generation block rejects.
UnusableItineraries ==
    {APIErrorResponse, InvalidText,
     Text(None), Text(Str(<<"x">>)),
     Text(Obj([days |-> Arr(<<>>)])),
     Text(Obj([itinerary |-> None])),
     Text(Obj([itinerary |-> Obj([days |-> Arr(<<>>)])])),
     Text(Arr(<<Day(1, <<>>, 0), Num(1)>>)),
     Text(Arr(<<SetItem(Day(1, <<>>, 0), cost_key, Str(<<"1">>))>>))}

\* Answers that are not an array and are accepted all the same.
WrappedItineraries ==
    {Text(Obj([itinerary |-> Arr(<<Day(1, <<Activity(1, Walk)>>, 1)>>)])),
     Text(Obj([itinerary |-> Obj(<<>>)])),
     Text(Obj([itinerary |-> Str(<<>>)]))}

GenerationResponses ==
    UnusableItineraries \cup WrappedItineraries \cup {Text(i) : i \in ServiceItineraries}

(* ---------------- one run of the script -------------------------------- *)

\* "Initialize Session State": only keys not yet present are set.
InitializeSessionState(st) ==
    [k \in DOMAIN st \cup {"itinerary", "total_trip_cost"} |->
        IF k \in DOMAIN st THEN st[k]
        ELSE IF k = "itinerary" THEN None ELSE 0]

\* "Main Logic" of a run that got past the key check.
MainLogic(st, generate, resp) ==
    IF ~("itinerary" \notin DOMAIN st \/ generate)
    THEN [st |-> st, outcome |-> "rendered", exc |-> ""]
    ELSE LET demo == IF is_demo_mode THEN ShowDemoItinerary(st) ELSE st
         IN  IF ~is_demo_mode /\ generate
             THEN GenerationBlock(demo, resp)
             ELSE [st |-> demo, outcome |-> "rendered", exc |-> ""]

\* The score the "Results" section shows, None when the section is skipped.
Results(st) ==
    IF Truthy(st.itinerary) THEN Num(calculate_sustainability(st.itinerary)) ELSE None

\* A run with no button pressed (first load, a slider moved, ...).  Without a
\* key st.stop() ends the run at the key check, before session state is touched
\* and before any widget is drawn.
Rerun ==
    /\ UNCHANGED api_key
    /\ IF ~api_key
       THEN /\ UNCHANGED <<session_state, sustainability_score, refinements>>
            /\ last' = Ran("rerun", 0, 0, NoResponse, "stopped", "")
       ELSE LET ml == MainLogic(InitializeSessionState(session_state), FALSE, NoResponse)
            IN  /\ session_state' = ml.st
                /\ sustainability_score' = Results(ml.st)
                /\ last' = Ran("rerun", 0, 0, NoResponse, ml.outcome, ml.exc)
                /\ UNCHANGED refinements

\* A run with the Generate button pressed; the button exists only on a page
\* drawn past the key check.
Generate(resp) ==
    /\ api_key
    /\ UNCHANGED api_key
    /\ LET ml == MainLogic(InitializeSessionState(session_state), TRUE, resp)
       IN  /\ session_state' = ml.st
           /\ sustainability_score' = Results(ml.st)
           /\ last' = Ran("generate", 0, 0, resp, ml.outcome, ml.exc)
           /\ refinements' = 0

\* The part of a run a pressed Swap or Reduce button adds: regenerate_activity
\* on the slot, then st.rerun() after a replacement.  No request is sent when
\* the prompt cannot be built.
Refine(op, d, a, resp) ==
    LET r == regenerate_activity(session_state.itinerary, d, a, resp)
        st == [session_state EXCEPT !.itinerary = r.itinerary]
    IN  /\ session_state' = st
        /\ sustainability_score' = Results(st)
        /\ last' = Ran(op, d, a, IF r.outcome = "uncaught" THEN NoResponse ELSE resp,
                       r.outcome, r.exc)
        /\ refinements' = IF r.outcome = "replaced" THEN refinements + 1 ELSE refinements
        /\ UNCHANGED api_key

\* A run with the Swap button of slot (d, a) pressed.
Swap(d, a, resp) ==
    /\ api_key
    /\ ~is_demo_mode
    /\ Truthy(session_state.itinerary)
    /\ <<d, a>> \in Slots(session_state.itinerary)
    /\ refinements < MaxRefinements
    /\ Refine("swap", d, a, resp)

\* A run with the Reduce Highest Cost button pressed.
ReduceHighestCost(resp) ==
    /\ api_key
    /\ ~is_demo_mode
    /\ Truthy(session_state.itinerary)
    /\ all_activities(session_state.itinerary) # <<>>
    /\ refinements < MaxRefinements
    /\ LET target == most_expensive(session_state.itinerary)
       IN  Refine("reduce", target.day_idx, target.act_idx, resp)

\* The state after the first run of a new session, with or without a key.
Init ==
    /\ api_key \in BOOLEAN
    /\ session_state = IF api_key THEN InitializeSessionState(<<>>) ELSE <<>>
    /\ sustainability_score = None
    /\ last = Ran("load", 0, 0, NoResponse, IF api_key THEN "rendered" ELSE "stopped", "")
    /\ refinements = 0

\* The slots whose Swap button the page shows.
ShownSlots ==
    IF api_key /\ Truthy(session_state.itinerary)
    THEN Slots(session_state.itinerary) ELSE {}

Next ==
    \/ Rerun
    \/ \E resp \in GenerationResponses : Generate(resp)
    \/ \E sl \in ShownSlots : \E resp \in ReplacementResponses : Swap(sl[1], sl[2], resp)
    \/ \E resp \in ReplacementResponses : ReduceHighestCost(resp)

Spec == Init /\ [][Next]_vars

(* ---------------- the sustainability score on its own ------------------ *)

\* Transportation texts: empty, the three green words in mixed case, and one
\* that is none of them.
TransportTexts ==
    {<<>>, Walk, <<"b","u","s">>, <<"M","E","T","R","O">>, <<"C","a","b">>}

\* Activities with each text, and one with no transportation field at all.
ScoredActivities ==
    {Activity(0, tr) : tr \in TransportTexts}
    \cup {Without(Activity(0, Walk), "transportation")}

ScoredLists == UNION {[1..n -> ScoredActivities] : n \in 0..SustActs}

\* Itineraries of one day or of two.
ScoredItineraries ==
    {Arr(<<Day(1, acts, 0)>>) : acts \in ScoredLists}
    \cup {Arr(<<Day(1, a1, 0), Day(2, a2, 0)>>) : a1 \in ScoredLists, a2 \in ScoredLists}

\* A session that holds any of these itineraries, its page not yet drawn.
SustInit ==
    /\ api_key = TRUE
    /\ \E it \in ScoredItineraries :
          session_state = [itinerary |-> it,
                           total_trip_cost |-> SumDailyBudgets(it).v.n]
    /\ sustainability_score = None
    /\ last = Ran("load", 0, 0, NoResponse, "rendered", "")
    /\ refinements = 0

SustNext == Rerun

SpecSust == SustInit /\ [][SustNext]_vars

(* ---------------- vocabulary of the properties ------------------------- *)

\* The "required" list of an activity in ITINERARY_SCHEMA.
RequiredActivityFields == {"time", "description", "estimatedCostINR", "latitude", "longitude"}

IsRefinement(l) == l.op \in {"swap", "reduce"}

\* The run got as far as sending its request.
CalledService(l) == l.response.t # "none"

Initialized == "itinerary" \in DOMAIN session_state

\* v.get(k, 0) as an integer, for an object v whose k is a number when present.
NumberAt(v, k) == IF k \in DOMAIN v.m THEN v.m[k].n ELSE 0

IsActivityObject(v) ==
    /\ v.t = "obj"
    /\ RequiredActivityFields \subseteq DOMAIN v.m
    /\ v.m[act_cost_key].t = "num"

\* The response is a non-empty array of activity objects.
IsActivityArray(resp) ==
    /\ resp.t = "text"
    /\ resp.valid
    /\ resp.doc.t = "arr"
    /\ Len(resp.doc.e) > 0
    /\ \A i \in DOMAIN resp.doc.e : IsActivityObject(resp.doc.e[i])

\* The response is an array whose first element is an object with a number, or
\* nothing, as its estimatedCostINR.
FirstIsTakable(resp) ==
    /\ resp.t = "text"
    /\ resp.valid
    /\ resp.doc.t = "arr"
    /\ Len(resp.doc.e) > 0
    /\ resp.doc.e[1].t = "obj"
    /\ (act_cost_key \in DOMAIN resp.doc.e[1].m => resp.doc.e[1].m[act_cost_key].t = "num")

\* new is old with the activity of slot (d, a) overwritten by act and the
\* summary of day d adjusted by the difference of the two costs, nothing else.
ReplacedExactly(old, new, d, a, act) ==
    LET od == old.e[d + 1]
        nd == new.e[d + 1]
    IN  /\ Len(new.e) = Len(old.e)
        /\ \A i \in DOMAIN old.e : i # d + 1 => new.e[i] = old.e[i]
        /\ DOMAIN nd.m = DOMAIN od.m \cup {cost_key}
        /\ \A f \in DOMAIN od.m \ {cost_key, "activities"} : nd.m[f] = od.m[f]
        /\ Len(nd.m.activities.e) = Len(od.m.activities.e)
        /\ \A j \in DOMAIN od.m.activities.e :
              nd.m.activities.e[j] = IF j = a + 1 THEN act ELSE od.m.activities.e[j]
        /\ nd.m[cost_key] =
              Num(NumberAt(od, cost_key) - NumberAt(od.m.activities.e[a + 1], act_cost_key)
                  + NumberAt(act, act_cost_key))

(* ---------------- C1 ---------------------------------------------------- *)

\* C1 as stated: whenever a refinement's request is answered by a service
\* error, an unparsable text or anything that is not a non-empty array of
\* activity objects, the itinerary after the run equals the itinerary before.
C1_AsStated ==
    [][(IsRefinement(last') /\ CalledService(last') /\ ~IsActivityArray(last'.response))
          => session_state'.itinerary = session_state.itinerary]_vars

\* C1 amended: a refinement whose request was sent either leaves the itinerary
\* equal to what it was and reports inline (a service error, an unparsable
\* text, or a response whose first element cannot be taken as an object with a
\* numeric or absent cost), or applies the budget adjustment and the overwrite
\* of the slot together; never one of the two alone.
C1_BothOrNeither ==
    [][(IsRefinement(last') /\ CalledService(last'))
          => IF FirstIsTakable(last'.response)
             THEN /\ last'.outcome = "replaced"
                  /\ ReplacedExactly(session_state.itinerary, session_state'.itinerary,
                                     last'.day_idx, last'.act_idx, last'.response.doc.e[1])
             ELSE /\ last'.outcome = "inline_error"
                  /\ session_state'.itinerary = session_state.itinerary]_vars

\* A swap whose request came back as a service error has run on an itinerary
\* that is still there.
C1_Witness ==
    /\ last.op = "swap"
    /\ last.outcome = "inline_error"
    /\ last.response = APIErrorResponse
    /\ Truthy(session_state.itinerary)

(* ---------------- C2 ---------------------------------------------------- *)

\* C2 as stated: after a successful refinement the refined day's
\* dailyBudgetSummaryINR equals the sum of the estimatedCostINR of its activities.
C2_SummaryIsSum ==
    (IsRefinement(last) /\ last.outcome = "replaced")
        => LET day == session_state.itinerary.e[last.day_idx + 1]
           IN  NumberAt(day, cost_key) = SumCosts(DayActivities(day))

(* ---------------- C3 ---------------------------------------------------- *)

\* C3 as stated: the total trip cost in session state always equals the sum of
\* dailyBudgetSummaryINR over the days of the current itinerary (0 when empty).
C3_TotalIsSum ==
    Initialized
        => session_state.total_trip_cost =
              IF session_state.itinerary.t = "arr"
              THEN SumDailyBudgets(session_state.itinerary).v.n ELSE 0

(* ---------------- C4 ---------------------------------------------------- *)

\* C4 as stated: after a successful swap of slot (d, a) the day's summary is
\* its old value minus the old cost plus the new cost, the slot holds the first
\* element of the returned array, and that element has every required field.
C4_AsStated ==
    [][(last'.op = "swap" /\ last'.outcome = "replaced")
          => /\ ReplacedExactly(session_state.itinerary, session_state'.itinerary,
                                last'.day_idx, last'.act_idx, last'.response.doc.e[1])
             /\ RequiredActivityFields \subseteq
                   DOMAIN session_state'.itinerary.e[last'.day_idx + 1]
                             .m.activities.e[last'.act_idx + 1].m]_vars

\* C4 amended: after a successful swap of slot (d, a) the day's summary is its
\* old value (0 when absent) minus the old cost plus the new cost (0 when
\* absent), and the slot holds the first element of the returned array exactly
\* as the service sent it, with the required fields it came with and no others.
C4_StoredAsSent ==
    [][(last'.op = "swap" /\ last'.outcome = "replaced")
          => /\ ReplacedExactly(session_state.itinerary, session_state'.itinerary,
                                last'.day_idx, last'.act_idx, last'.response.doc.e[1])
             /\ DOMAIN session_state'.itinerary.e[last'.day_idx + 1]
                          .m.activities.e[last'.act_idx + 1].m
                   = DOMAIN last'.response.doc.e[1].m]_vars

\* A swap has stored an activity that came without coordinates.
C4_Witness ==
    /\ last.op = "swap"
    /\ last.outcome = "replaced"
    /\ last.response = Text(Arr(<<NoCoordinatesActivity>>))
    /\ session_state.itinerary.e[last.day_idx + 1].m.activities.e[last.act_idx + 1]
          = NoCoordinatesActivity

(* ---------------- C5 ---------------------------------------------------- *)

\* C5 as stated: a session started without a key does not stop; it holds the
\* demo itinerary after every run.
C5_DemoModeWithoutKey ==
    ~api_key
        => /\ last.outcome # "stopped"
           /\ Initialized
           /\ session_state.itinerary = MOCK_ITINERARY

(* ---------------- C6 ---------------------------------------------------- *)

\* The elements of data can be summed as days: data can be iterated and every
\* element is an object whose summary is a number or absent.
Summable(data) ==
    /\ data.t \in {"arr", "str", "obj"}
    /\ data.t = "str" => Len(data.s) = 0
    /\ data.t = "obj" => DOMAIN data.m = {}
    /\ data.t = "arr" =>
          \A i \in DOMAIN data.e :
             /\ data.e[i].t = "obj"
             /\ (cost_key \in DOMAIN data.e[i].m => data.e[i].m[cost_key].t = "num")

HoldsDemoItinerary ==
    /\ last.outcome \in {"api_error_demo", "general_error_demo"}
    /\ session_state.itinerary = MOCK_ITINERARY
    /\ session_state.total_trip_cost = 620

\* C6 as stated: a generation answered by a service error, a text that is not
\* JSON, a value that is not an array, or an array that cannot be summed as
\* days, ends with the demo itinerary and its total in session state.
C6_AsStated ==
    (/\ last.op = "generate"
     /\ \/ last.response.t = "APIError"
        \/ ~last.response.valid
        \/ last.response.doc.t # "arr"
        \/ ~Summable(last.response.doc))
        => HoldsDemoItinerary

\* C6 amended: the same, where the value that is rejected is one that is
\* neither an array nor an object with an "itinerary" member, and the value
\* that is summed is the array or that member.
C6_FallbackOnEveryRaise ==
    (/\ last.op = "generate"
     /\ \/ last.response.t = "APIError"
        \/ ~last.response.valid
        \/ /\ last.response.doc.t # "arr"
           /\ ~(last.response.doc.t = "obj" /\ "itinerary" \in DOMAIN last.response.doc.m)
        \/ /\ last.response.doc.t = "arr"
           /\ ~Summable(last.response.doc)
        \/ /\ last.response.doc.t = "obj"
           /\ "itinerary" \in DOMAIN last.response.doc.m
           /\ ~Summable(last.response.doc.m.itinerary))
        => HoldsDemoItinerary

\* A generation whose array had a day with a text as its summary ended with
\* the demo itinerary, although the array had already been stored.
C6_Witness ==
    /\ last.op = "generate"
    /\ last.response = Text(Arr(<<SetItem(Day(1, <<>>, 0), cost_key, Str(<<"1">>))>>))
    /\ last.exc = "TypeError"
    /\ session_state.itinerary = MOCK_ITINERARY

(* ---------------- C7 ---------------------------------------------------- *)

CostAt(itinerary, sl) ==
    NumberAt(itinerary.e[sl[1] + 1].m.activities.e[sl[2] + 1], act_cost_key)

\* sl comes before other in day order, then activity order.
Earlier(sl, other) ==
    sl[1] < other[1] \/ (sl[1] = other[1] /\ sl[2] < other[2])

\* C7: the slot Reduce Highest Cost aims at costs at least as much as every
\* other slot of the itinerary, and comes before every other slot of the same
\* cost.
C7_TargetsFirstMaximum ==
    [][last'.op = "reduce"
          => LET target == <<last'.day_idx, last'.act_idx>>
                 it == session_state.itinerary
             IN  /\ target \in Slots(it)
                 /\ \A sl \in Slots(it) \ {target} :
                       \/ CostAt(it, sl) < CostAt(it, target)
                       \/ (CostAt(it, sl) = CostAt(it, target) /\ Earlier(target, sl))]_vars

\* Reduce Highest Cost ran on an itinerary whose maximum is shared by a later
\* slot, in the same day or the next, and was refused a replacement, so the
\* itinerary it chose from is still there.
C7_Witness ==
    /\ last.op = "reduce"
    /\ last.outcome = "inline_error"
    /\ LET target == <<last.day_idx, last.act_idx>>
           it == session_state.itinerary
       IN  /\ CostAt(it, target) > 0
           /\ \E sl \in Slots(it) :
                 Earlier(target, sl) /\ CostAt(it, sl) = CostAt(it, target)
           /\ \E sl \in Slots(it) : CostAt(it, sl) < CostAt(it, target)

(* ---------------- C8 ---------------------------------------------------- *)

\* C8 as stated: no refinement ends in an exception that nothing catches.
C8_NothingUncaught ==
    IsRefinement(last) => last.outcome # "uncaught"

(* ---------------- C9 and C10 -------------------------------------------- *)

ActivityAt(itinerary, sl) == itinerary.e[sl[1] + 1].m.activities.e[sl[2] + 1]

HasTransportation(act) == "transportation" \in DOMAIN act.m

\* The activity's transportation text names metro, bus or walk, in any case.
NamesGreenMode(act) ==
    /\ HasTransportation(act)
    /\ LET text == Lower(act.m.transportation.s)
       IN  Contains(metro, text) \/ Contains(bus, text) \/ Contains(walk, text)

NamesWalk(act) ==
    HasTransportation(act) /\ Contains(walk, Lower(act.m.transportation.s))

\* Activities with a non-empty transportation text, and those among them that
\* name a green mode.
Mentioned(itinerary) ==
    Cardinality({sl \in Slots(itinerary) :
                    /\ HasTransportation(ActivityAt(itinerary, sl))
                    /\ Len(ActivityAt(itinerary, sl).m.transportation.s) > 0})

Green(itinerary) ==
    Cardinality({sl \in Slots(itinerary) : NamesGreenMode(ActivityAt(itinerary, sl))})

Clamped(r) == IF r < 1 THEN 1 ELSE IF r > 5 THEN 5 ELSE r

Distance(x, y) == IF x < y THEN y - x ELSE x - y

\* C9: the score shown is an integer of 1..5; it is 3 when no activity has
\* non-empty transportation text and otherwise round(green / mentioned * 5)
\* clamped to 1..5, round() being the source's: the nearest integer, the even
\* one of the two when the value lies halfway between them.
C9_NearestTiesToEven ==
    sustainability_score.t = "num"
        => LET g == Green(session_state.itinerary)
               m == Mentioned(session_state.itinerary)
           IN  /\ sustainability_score.n \in 1..5
               /\ IF m = 0 THEN sustainability_score.n = 3
                  ELSE \E r \in 0..5 :
                          /\ 2 * Distance(5 * g, r * m) <= m
                          /\ (2 * Distance(5 * g, r * m) = m => r % 2 = 0)
                          /\ sustainability_score.n = Clamped(r)

\* A page has shown the score of an itinerary with two transportation texts,
\* one of them green: 2.5 rounded to 2.
C9_Witness ==
    /\ sustainability_score.t = "num"
    /\ Mentioned(session_state.itinerary) = 2
    /\ Green(session_state.itinerary) = 1
    /\ sustainability_score.n = 2

\* C10 as stated: when every transportation string of the itinerary contains
\* "walk", the score shown is 5.
C10_AsStated ==
    (/\ sustainability_score.t = "num"
     /\ \A sl \in Slots(session_state.itinerary) :
           HasTransportation(ActivityAt(session_state.itinerary, sl))
              => NamesWalk(ActivityAt(session_state.itinerary, sl)))
        => sustainability_score.n = 5

\* C10 amended: when the itinerary has at least one transportation string and
\* every one of them contains "walk", the score shown is 5.
C10_AllWalkScoresFive ==
    (/\ sustainability_score.t = "num"
     /\ \E sl \in Slots(session_state.itinerary) :
           HasTransportation(ActivityAt(session_state.itinerary, sl))
     /\ \A sl \in Slots(session_state.itinerary) :
           HasTransportation(ActivityAt(session_state.itinerary, sl))
              => NamesWalk(ActivityAt(session_state.itinerary, sl)))
        => sustainability_score.n = 5

\* A page has shown 5 for an itinerary of two days whose every transportation
\* string names walking and one of whose activities has no such string.
C10_Witness ==
    /\ sustainability_score.t = "num"
    /\ sustainability_score.n = 5
    /\ Len(session_state.itinerary.e) = 2
    /\ Mentioned(session_state.itinerary) >= 2
    /\ \E sl \in Slots(session_state.itinerary) :
          ~HasTransportation(ActivityAt(session_state.itinerary, sl))
    /\ \A sl \in Slots(session_state.itinerary) :
          HasTransportation(ActivityAt(session_state.itinerary, sl))
             => NamesWalk(ActivityAt(session_state.itinerary, sl))

(* ---------------- C11 --------------------------------------------------- *)

\* The kind of failure an answer of the service amounts to: the remote call
\* failed, the text is not JSON, or the parsed value is not an array; "" for
\* an answer that is a JSON array.
FailureKind(resp) ==
    IF resp.t = "APIError" THEN "ServiceError"
    ELSE IF ~resp.valid THEN "ParseError"
    ELSE IF resp.doc.t # "arr" THEN "ShapeError"
    ELSE ""

\* The answers the service may give to the request of run l.
AnswersTo(l) ==
    IF l.op = "generate" THEN GenerationResponses ELSE ReplacementResponses

\* How the run l would have ended had the service answered resp instead.  A
\* run that did not replace anything left the itinerary as it found it.
PathOf(l, resp) ==
    IF l.op = "generate" THEN GenerationBlock(session_state, resp).outcome
    ELSE TryReplace(session_state.itinerary, l.day_idx, l.act_idx, resp).outcome

IsWrapper(doc) == doc.t = "obj" /\ "itinerary" \in DOMAIN doc.m

\* C11 as stated: a run whose request was answered by a service error, a text
\* that is not JSON or a value that is not an array does not accept the
\* answer, and ends in a path that no answer of another of these three kinds
\* ends in.
C11_AsStated ==
    (CalledService(last) /\ FailureKind(last.response) # "")
        => /\ last.outcome \notin {"generated", "replaced"}
           /\ \A r \in AnswersTo(last) :
                 FailureKind(r) \notin {"", FailureKind(last.response)}
                    => PathOf(last, r) # last.outcome

\* C11 amended: a generation ends in the APIError clause exactly when the
\* remote call failed; a text that is not JSON and a value that is neither an
\* array nor an object with an "itinerary" member both end in the general
\* clause, told apart only by the exception (JSONDecodeError, ValueError); an
\* object with an "itinerary" member is accepted with that member as the
\* itinerary when the member can be summed, and ends in the general clause
\* otherwise.  A refinement answered by any of the three kinds ends in its one
\* inline error.
C11_TwoClausesOnGeneration ==
    CalledService(last)
        => LET k == FailureKind(last.response)
           IN  /\ last.op = "generate" =>
                    /\ (k = "ServiceError") <=> (last.outcome = "api_error_demo")
                    /\ k = "ParseError" =>
                          /\ last.outcome = "general_error_demo"
                          /\ last.exc = "JSONDecodeError"
                    /\ (k = "ShapeError" /\ ~IsWrapper(last.response.doc)) =>
                          /\ last.outcome = "general_error_demo"
                          /\ last.exc = "ValueError"
                    /\ (k = "ShapeError" /\ IsWrapper(last.response.doc)) =>
                          LET member == last.response.doc.m.itinerary
                          IN  IF Summable(member)
                              THEN /\ last.outcome = "generated"
                                   /\ session_state.itinerary = member
                              ELSE last.outcome = "general_error_demo"
               /\ (IsRefinement(last) /\ k # "") => last.outcome = "inline_error"

\* A generation answered by a text that is not JSON has ended in the general
\* clause, where a value that is not an array would have ended as well.
C11_Witness ==
    /\ last.op = "generate"
    /\ FailureKind(last.response) = "ParseError"
    /\ last.outcome = "general_error_demo"
    /\ \E r \in GenerationResponses :
          /\ FailureKind(r) = "ShapeError"
          /\ PathOf(last, r) = last.outcome

====
